---- MODULE Spec2Model ----
(***************************************************************************)
(* A model of the python-utils toolbox: the line tokenizer, the lock file,  *)
(* the environment probe, the interactive prompt, the ANSI printer and the  *)
(* singleton helpers.  Every component is a small state machine over its    *)
(* own variables; a component's specification leaves the others idle.       *)
(*                                                                          *)
(* A Python str is a sequence of one-character strings.  Python indices are *)
(* 0-based and are kept as in the source; Slice converts to TLA+ SubSeq.    *)
(***************************************************************************)
EXTENDS Integers, Sequences, FiniteSets, TLC

VARIABLES
    \* ---- line tokenizer (python_util.py) ----
    line,            \* the argument of the four tokenizer functions
    first_word,      \* result of get_first_word(line), or NotCalled
    first_word_re,   \* result of get_first_word_re(line), or NotCalled
    rest,            \* result of get_line_without_first_word(line), or NotCalled
    rest_re,         \* result of get_line_without_first_word_re(line), or NotCalled
    \* ---- lock file (python_util.py) ----
    lock_file,       \* the file at the lock path: "absent", "empty" or "data"
    lock_owner,      \* the process owning the OS record lock on it, or NoProc
    handles,         \* handle -> [proc, state]: the file objects opened on the path
    acq,             \* the last acquireLockFile call: who, which handle, outcome
    \* ---- environment probe (env_variable.py) ----
    environ,         \* os.environ: name -> value, or None when the name is unset
    is_debug_cache,  \* the functools.cache of is_debug: {} or {its one result}
    no_color_cache,  \* the functools.cache of no_color: {} or {its one result}
    first_ret,       \* what the first call of is_debug / no_color returned
    env_call,        \* the last call of the module: function, argument, result
    \* ---- interactive prompt (python_util.py) ----
    dp_args,         \* the arguments of the running display_options call
    dp_pc,           \* "input": blocked in input(); "returned": the call returned
    dp_message,      \* the local variable message: the next prompt
    dp_shown,        \* the prompts input() has printed so far
    dp_inputs,       \* the lines input() has returned so far
    dp_ret,          \* the value display_options returned
    \* ---- singleton helpers (decorator.py) ----
    instances,       \* decorated class -> the dict `instances` of its closure
    Singleton_instances, \* the dict Singleton._instances
    objects,         \* the objects constructed so far: [cls, args], in order
    first_inst,      \* class -> the object its first construction call returned
    sg_call,         \* the last construction call: class, arguments, result
    \* ---- ANSI printer (colored_print.py) ----
    cp_no_color,     \* the module global no_color
    cp_override,     \* the argument of the last color_settings call: {} or {it}
    cp_call,         \* the last printer call: function, colour, arguments, stream
    printed          \* the text that call wrote to its stream

tokVars == <<line, first_word, first_word_re, rest, rest_re>>
lockVars == <<lock_file, lock_owner, handles, acq>>
envVars == <<environ, is_debug_cache, no_color_cache, first_ret, env_call>>
dpVars == <<dp_args, dp_pc, dp_message, dp_shown, dp_inputs, dp_ret>>
sgVars == <<instances, Singleton_instances, objects, first_inst, sg_call>>
cpVars == <<cp_no_color, cp_override, cp_call, printed>>
vars == <<tokVars, lockVars, envVars, dpVars, sgVars, cpVars>>

\* the value of a result variable before its function was called (no result
\* is this: every element of a result is a single character)
NotCalled == <<"NotCalled">>

\* ------------------------------------------------------------------------
\* Bounds
\* ------------------------------------------------------------------------
MaxLineLen == 4
MaxHandles == 3
MaxInputs == 3

\* ------------------------------------------------------------------------
\* Python str helpers
\* ------------------------------------------------------------------------
\* line[a:b] for 0 <= a, 0 <= b <= len(line)
Slice(s, a, b) == SubSeq(s, a + 1, b)

\* line[a:]
SliceFrom(s, a) == SubSeq(s, a + 1, Len(s))

\* all strings over alphabet A of length at most n
StringsUpTo(A, n) == UNION {[1..k -> A] : k \in 0..n}

\* the characters of the modelled lines: two word characters and three
\* whitespace characters (blank, carriage return, newline)
LineChars == {"a", "b", " ", "\r", "\n"}

\* str.isspace() of one character, which is also the regex class \s
isspace(c) == c \in {" ", "\r", "\n"}

\* the regex class "." without DOTALL: anything but a newline
dot(c) == c # "\n"

\* ------------------------------------------------------------------------
\* get_first_word: the scanning first-token function
\* ------------------------------------------------------------------------
RECURSIVE get_first_word_loop(_, _, _)
get_first_word_loop(ln, i, leading_space_end) ==
    IF i >= Len(ln)
    THEN SliceFrom(ln, leading_space_end + 1)
    ELSE IF isspace(ln[i + 1])
         THEN IF leading_space_end < -1
              THEN get_first_word_loop(ln, i + 1, leading_space_end)
              ELSE Slice(ln, leading_space_end + 1, i)
         ELSE IF leading_space_end < -1
              THEN get_first_word_loop(ln, i + 1, i - 1)
              ELSE get_first_word_loop(ln, i + 1, leading_space_end)

get_first_word(ln) == get_first_word_loop(ln, 0, -1)

\* ------------------------------------------------------------------------
\* get_first_word_re: re.compile(r"^\s*(\S+)").match(line)
\* A match is a pair <<i, j>>: \s* consumes ln[0:i], (\S+) consumes ln[i:j].
\* ------------------------------------------------------------------------
\* every character of s[a:b] is in the class \s, \S, or "."
AllSpace(s, a, b) == \A x \in (a + 1)..b : isspace(s[x])
AllNotSpace(s, a, b) == \A x \in (a + 1)..b : ~isspace(s[x])
AllDot(s, a, b) == \A x \in (a + 1)..b : dot(s[x])

first_word_re_matches(ln) ==
    {m \in (0..Len(ln)) \X (0..Len(ln)) :
        /\ AllSpace(ln, 0, m[1])
        /\ m[2] > m[1]
        /\ AllNotSpace(ln, m[1], m[2])}

\* lexicographic order on tuples of the same length: the order in which a
\* backtracking matcher with greedy quantifiers tries the alternatives
RECURSIVE LexGE(_, _)
LexGE(t, u) ==
    IF Len(t) = 0 THEN TRUE
    ELSE IF t[1] # u[1] THEN t[1] > u[1]
    ELSE LexGE(Tail(t), Tail(u))

Greediest(M) == CHOOSE t \in M : \A u \in M : LexGE(t, u)

get_first_word_re(ln) ==
    LET M == first_word_re_matches(ln)
    IN IF M = {} THEN ln
       ELSE LET m == Greediest(M) IN Slice(ln, m[1], m[2])

\* ------------------------------------------------------------------------
\* get_line_without_first_word: the scanning remainder function
\* ------------------------------------------------------------------------
RECURSIVE get_line_without_first_word_loop(_, _, _, _)
get_line_without_first_word_loop(ln, i, leading_space_end, leading_word_end) ==
    IF i >= Len(ln)
    THEN <<>>
    ELSE IF isspace(ln[i + 1])
         THEN IF leading_space_end >= -1
              THEN get_line_without_first_word_loop(ln, i + 1, leading_space_end, i - 1)
              ELSE get_line_without_first_word_loop(ln, i + 1, leading_space_end,
                                                    leading_word_end)
         ELSE IF leading_space_end < -1
              THEN get_line_without_first_word_loop(ln, i + 1, i - 1, leading_word_end)
              ELSE IF leading_word_end >= 0
                   THEN SliceFrom(ln, i)
                   ELSE get_line_without_first_word_loop(ln, i + 1, leading_space_end,
                                                         leading_word_end)

get_line_without_first_word(ln) == get_line_without_first_word_loop(ln, 0, -2, -1)

\* ------------------------------------------------------------------------
\* get_line_without_first_word_re:
\*   re.compile(r"^\s*\S+\s*(.*\r?\n)").match(line)
\* A match is <<i, j, k, m, r>>: \s* = ln[0:i], \S+ = ln[i:j], \s* = ln[j:k],
\* .* = ln[k:m], \r? consumes r characters (1 is tried first), \n = ln[m+r].
\* ------------------------------------------------------------------------
line_without_first_word_re_matches(ln) ==
    LET n == Len(ln)
    IN {t \in (0..n) \X (0..n) \X (0..n) \X (0..n) \X {0, 1} :
          /\ AllSpace(ln, 0, t[1])
          /\ t[2] > t[1]
          /\ AllNotSpace(ln, t[1], t[2])
          /\ t[3] >= t[2]
          /\ AllSpace(ln, t[2], t[3])
          /\ t[4] >= t[3]
          /\ AllDot(ln, t[3], t[4])
          /\ t[4] + t[5] + 1 <= n
          /\ (t[5] = 1 => ln[t[4] + 1] = "\r")
          /\ ln[t[4] + t[5] + 1] = "\n"}

get_line_without_first_word_re(ln) ==
    LET M == line_without_first_word_re_matches(ln)
    IN IF M = {} THEN ln
       ELSE LET t == Greediest(M) IN Slice(ln, t[3], t[4] + t[5] + 1)

\* ------------------------------------------------------------------------
\* The tokenizer as a state machine: a line is given, and each of the four
\* functions may be called on it.
\* ------------------------------------------------------------------------
TokInit ==
    /\ line \in StringsUpTo(LineChars, MaxLineLen)
    /\ first_word = NotCalled
    /\ first_word_re = NotCalled
    /\ rest = NotCalled
    /\ rest_re = NotCalled

CallGetFirstWord ==
    /\ first_word = NotCalled
    /\ first_word' = get_first_word(line)
    /\ UNCHANGED <<line, first_word_re, rest, rest_re, lockVars, envVars, dpVars, sgVars, cpVars>>

CallGetFirstWordRe ==
    /\ first_word_re = NotCalled
    /\ first_word_re' = get_first_word_re(line)
    /\ UNCHANGED <<line, first_word, rest, rest_re, lockVars, envVars, dpVars, sgVars, cpVars>>

CallGetLineWithoutFirstWord ==
    /\ rest = NotCalled
    /\ rest' = get_line_without_first_word(line)
    /\ UNCHANGED <<line, first_word, first_word_re, rest_re, lockVars, envVars, dpVars, sgVars, cpVars>>

CallGetLineWithoutFirstWordRe ==
    /\ rest_re = NotCalled
    /\ rest_re' = get_line_without_first_word_re(line)
    /\ UNCHANGED <<line, first_word, first_word_re, rest, lockVars, envVars, dpVars, sgVars, cpVars>>

TokNext ==
    \/ CallGetFirstWord
    \/ CallGetFirstWordRe
    \/ CallGetLineWithoutFirstWord
    \/ CallGetLineWithoutFirstWordRe

\* no tokenizer call in progress: the line is empty and nothing was called
TokIdle ==
    /\ line = <<>>
    /\ first_word = NotCalled
    /\ first_word_re = NotCalled
    /\ rest = NotCalled
    /\ rest_re = NotCalled

\* ------------------------------------------------------------------------
\* Lock file: acquireLockFile / releaseLockFile.
\* fcntl.lockf is the POSIX record lock (fcntl F_SETLK).  Such a lock belongs
\* to the process, not to the file object: a process that owns the lock is
\* granted it again through any other handle, and closing ANY handle the
\* process has on the file drops the process's lock on it.
\* ------------------------------------------------------------------------
Procs == {"p1", "p2"}
NoProc == "none"
Handles == 1..MaxHandles

NoHandle == [proc |-> NoProc, state |-> "unused"]
NoAcquire == [proc |-> NoProc, handle |-> 0, ok |-> FALSE, held_before |-> FALSE]

\* the handles returned by a successful acquireLockFile and not yet released
Held == {h \in Handles : handles[h].state = "held"}

LockInit ==
    /\ lock_file \in {"absent", "empty", "data"}
    /\ lock_owner = NoProc
    /\ handles = [h \in Handles |-> NoHandle]
    /\ acq = NoAcquire

\* fcntl.lockf(fd, LOCK_NB | LOCK_EX) by process p: granted unless another
\* process owns the lock
lockf_granted(p) == lock_owner \in {NoProc, p}

\* file.close() of handle h: the handle is closed and the process's record
\* lock on the file, if it owns one, is dropped
close(h) ==
    /\ handles' = [handles EXCEPT ![h].state = "closed"]
    /\ lock_owner' = IF lock_owner = handles[h].proc THEN NoProc ELSE lock_owner

\* acquireLockFile(lock_file) called by process p; h is the new file object.
\* open(.., "w+") creates the file or truncates it, before the lock is tried.
\* On failure the OSError is raised and the file object is left open.
acquireLockFile(p, h) ==
    /\ handles[h].state = "unused"
    /\ \A g \in Handles : g < h => handles[g].state # "unused"
    /\ lock_file' = "empty"
    /\ IF lockf_granted(p)
       THEN /\ lock_owner' = p
            /\ handles' = [handles EXCEPT ![h] = [proc |-> p, state |-> "held"]]
       ELSE /\ lock_owner' = lock_owner
            /\ handles' = [handles EXCEPT ![h] = [proc |-> p, state |-> "leaked"]]
    /\ acq' = [proc |-> p, handle |-> h, ok |-> lockf_granted(p),
               held_before |-> Held # {}]

\* releaseLockFile(locked_file_descriptor)
releaseLockFile(h) ==
    /\ handles[h].state = "held"
    /\ close(h)
    /\ UNCHANGED <<lock_file, acq>>

\* the file object a failed acquireLockFile left open is closed when the
\* interpreter collects it
CollectLeaked(h) ==
    /\ handles[h].state = "leaked"
    /\ close(h)
    /\ UNCHANGED <<lock_file, acq>>

Acquire ==
    /\ \E p \in Procs, h \in Handles : acquireLockFile(p, h)
    /\ UNCHANGED <<tokVars, envVars, dpVars, sgVars, cpVars>>

\* the caller of a successful acquireLockFile writes to the file object it
\* was returned (opened "w+": readable and writable), its pid for instance
WriteLocked(h) ==
    /\ handles[h].state = "held"
    /\ lock_file' = "data"
    /\ UNCHANGED <<lock_owner, handles, acq>>

Release ==
    /\ \E h \in Handles : releaseLockFile(h)
    /\ UNCHANGED <<tokVars, envVars, dpVars, sgVars, cpVars>>

Collect ==
    /\ \E h \in Handles : CollectLeaked(h)
    /\ UNCHANGED <<tokVars, envVars, dpVars, sgVars, cpVars>>

Write ==
    /\ \E h \in Handles : WriteLocked(h)
    /\ UNCHANGED <<tokVars, envVars, dpVars, sgVars, cpVars>>

LockNext ==
    \/ Acquire
    \/ Release
    \/ Collect
    \/ Write

LockIdle ==
    /\ lock_file = "absent"
    /\ lock_owner = NoProc
    /\ handles = [h \in Handles |-> NoHandle]
    /\ acq = NoAcquire

\* ------------------------------------------------------------------------
\* Environment probe (env_variable.py)
\* ------------------------------------------------------------------------
IS_DEBUG_ENVIRON == "DEBUG"
NO_COLOR_ENVIRON == "NO_COLOR"
EnvNames == {IS_DEBUG_ENVIRON, NO_COLOR_ENVIRON}

\* Python's None as a value of os.environ.get (no string is this: every
\* element of a string is one character)
None == <<"None">>

\* U+00B2 SUPERSCRIPT TWO, one character: str.isdigit() is true of it
\* (Numeric_Type=Digit) and int() rejects it (it is not a decimal digit)
Sup2 == "SUPERSCRIPT TWO"

DecimalDigits == {"0", "1", "2", "3", "4", "5", "6", "7", "8", "9"}

digit_value(c) ==
    CASE c = "0" -> 0 [] c = "1" -> 1 [] c = "2" -> 2 [] c = "3" -> 3
      [] c = "4" -> 4 [] c = "5" -> 5 [] c = "6" -> 6 [] c = "7" -> 7
      [] c = "8" -> 8 [] c = "9" -> 9

digit_char(d) == <<"0", "1", "2", "3", "4", "5", "6", "7", "8", "9">>[d + 1]

\* str.isdigit(): non-empty and every character a digit character
isdigit(s) == Len(s) > 0 /\ \A x \in 1..Len(s) : s[x] \in DecimalDigits \cup {Sup2}

\* int(s) for a string with isdigit(s): its decimal value, or ValueError when
\* a character is no decimal digit
ValueError == "ValueError"

RECURSIVE decimal_value(_)
decimal_value(s) ==
    IF Len(s) = 0 THEN 0
    ELSE 10 * decimal_value(SubSeq(s, 1, Len(s) - 1)) + digit_value(s[Len(s)])

int_raises(s) == \E x \in 1..Len(s) : s[x] \notin DecimalDigits

\* str(n) of an int
RECURSIVE str_nat(_)
str_nat(n) == IF n < 10 THEN <<digit_char(n)>>
              ELSE str_nat(n \div 10) \o <<digit_char(n % 10)>>

str_int(n) == IF n < 0 THEN <<"-">> \o str_nat(-n) ELSE str_nat(n)

\* the values given to set_env: strings and ints
EnvStrings == {<<>>, <<"0">>, <<"5">>, <<"0", "0">>, <<"a", "b", "c">>,
               <<"-", "0">>, <<Sup2>>}
EnvInts == {0, 10, -1}

EnvValues == EnvStrings \cup {str_int(n) : n \in EnvInts}

check_env(env) == environ[env]

check_env_exists(env) == environ[env] # None

check_env_exists_and_not_empty(env) ==
    LET val == environ[env] IN val # None /\ Len(val) # 0

\* check_env_true(env): [ret, raised]; int(val) is evaluated only when
\* val.isdigit()
check_env_true(env) ==
    LET val == environ[env]
        is_digit == isdigit(val)
    IN IF val = None THEN [ret |-> FALSE, raised |-> ""]
       ELSE IF is_digit /\ int_raises(val) THEN [ret |-> FALSE, raised |-> ValueError]
       ELSE [ret |-> \/ (is_digit /\ decimal_value(val) # 0)
                     \/ (~is_digit /\ Len(val) # 0),
             raised |-> ""]

\* a cache that never answers from its store: the function's value now
uncached(cache, value) == value

\* @functools.cache on a function without arguments: the stored result if
\* there is one, else the function's value now
cached(cache, value) == IF cache # {} THEN CHOOSE r \in cache : TRUE ELSE value

is_debug == cached(is_debug_cache, check_env_exists(IS_DEBUG_ENVIRON))

no_color == cached(no_color_cache, check_env_exists_and_not_empty(NO_COLOR_ENVIRON))

NoCall == [fn |-> "none", arg |-> "", val |-> None, ret |-> FALSE, raised |-> ""]

EnvInit ==
    /\ environ \in [EnvNames -> EnvValues \cup {None}]
    /\ is_debug_cache = {}
    /\ no_color_cache = {}
    /\ first_ret = [is_debug |-> {}, no_color |-> {}]
    /\ env_call = NoCall

\* set_env(env, val) with val a str
SetEnvStr ==
    /\ \E env \in EnvNames, val \in EnvStrings :
          /\ environ' = [environ EXCEPT ![env] = val]
          /\ env_call' = [fn |-> "set_env", arg |-> env, val |-> val,
                          ret |-> environ[env], raised |-> ""]
    /\ UNCHANGED <<is_debug_cache, no_color_cache, first_ret, tokVars, lockVars, dpVars, sgVars, cpVars>>

\* set_env(env, val) with val an int: stored as str(val)
SetEnvInt ==
    /\ \E env \in EnvNames, val \in EnvInts :
          /\ environ' = [environ EXCEPT ![env] = str_int(val)]
          /\ env_call' = [fn |-> "set_env", arg |-> env, val |-> str_int(val),
                          ret |-> environ[env], raised |-> ""]
    /\ UNCHANGED <<is_debug_cache, no_color_cache, first_ret, tokVars, lockVars, dpVars, sgVars, cpVars>>

CallCheckEnvTrue ==
    /\ \E env \in EnvNames :
          env_call' = [fn |-> "check_env_true", arg |-> env, val |-> environ[env],
                       ret |-> check_env_true(env).ret,
                       raised |-> check_env_true(env).raised]
    /\ UNCHANGED <<environ, is_debug_cache, no_color_cache, first_ret, tokVars, lockVars, dpVars, sgVars, cpVars>>

CallIsDebug ==
    /\ is_debug_cache' = {is_debug}
    /\ first_ret' = IF first_ret.is_debug = {}
                    THEN [first_ret EXCEPT !.is_debug = {is_debug}] ELSE first_ret
    /\ env_call' = [fn |-> "is_debug", arg |-> "", val |-> environ[IS_DEBUG_ENVIRON],
                    ret |-> is_debug, raised |-> ""]
    /\ UNCHANGED <<environ, no_color_cache, tokVars, lockVars, dpVars, sgVars, cpVars>>

CallNoColor ==
    /\ no_color_cache' = {no_color}
    /\ first_ret' = IF first_ret.no_color = {}
                    THEN [first_ret EXCEPT !.no_color = {no_color}] ELSE first_ret
    /\ env_call' = [fn |-> "no_color", arg |-> "", val |-> environ[NO_COLOR_ENVIRON],
                    ret |-> no_color, raised |-> ""]
    /\ UNCHANGED <<environ, is_debug_cache, tokVars, lockVars, dpVars, sgVars, cpVars>>

EnvNext ==
    \/ SetEnvStr
    \/ SetEnvInt
    \/ CallCheckEnvTrue
    \/ CallIsDebug
    \/ CallNoColor

EnvIdle ==
    /\ environ = [n \in EnvNames |-> None]
    /\ is_debug_cache = {}
    /\ no_color_cache = {}
    /\ first_ret = [is_debug |-> {}, no_color |-> {}]
    /\ env_call = NoCall

\* ------------------------------------------------------------------------
\* Interactive prompt: display_options (python_util.py)
\* ------------------------------------------------------------------------
\* str.lower() / str.upper() of one character
lower_char(c) ==
    CASE c = "Y" -> "y" [] c = "N" -> "n" [] c = "E" -> "e" [] c = "S" -> "s"
      [] c = "O" -> "o" [] c = "Z" -> "z" [] OTHER -> c

upper_char(c) ==
    CASE c = "y" -> "Y" [] c = "n" -> "N" [] c = "e" -> "E" [] c = "s" -> "S"
      [] c = "o" -> "O" [] c = "z" -> "Z" [] OTHER -> c

lower(s) == [x \in 1..Len(s) |-> lower_char(s[x])]
upper(s) == [x \in 1..Len(s) |-> upper_char(s[x])]

\* str.islower(): a cased character exists and no cased character is upper
islower(s) ==
    /\ \E x \in 1..Len(s) : lower_char(s[x]) # upper_char(s[x])
    /\ \A x \in 1..Len(s) : s[x] = lower_char(s[x])

\* str.strip(): without its leading and trailing whitespace
RECURSIVE lstrip(_)
lstrip(s) == IF Len(s) > 0 /\ isspace(s[1]) THEN lstrip(Tail(s)) ELSE s

RECURSIVE rstrip(_)
rstrip(s) == IF Len(s) > 0 /\ isspace(s[Len(s)])
             THEN rstrip(SubSeq(s, 1, Len(s) - 1)) ELSE s

strip(s) == rstrip(lstrip(s))

\* sep.join(parts)
RECURSIVE join(_, _)
join(sep, parts) ==
    IF Len(parts) = 0 THEN <<>>
    ELSE IF Len(parts) = 1 THEN parts[1]
    ELSE parts[1] \o sep \o join(sep, Tail(parts))

\* the keys of an option_list
KeySet(option_list) == {option_list[x].key : x \in 1..Len(option_list)}

is_short_format(option_list) ==
    \A x \in 1..Len(option_list) : Len(option_list[x].key) = 1

\* an option as the prompt shows it: the default in upper case (short
\* format) or in brackets
display_option(option, default_option, short) ==
    IF option # default_option THEN option
    ELSE IF short THEN upper(option) ELSE <<"[">> \o option \o <<"]">>

display_options_str(option_list, default_option) ==
    LET short == is_short_format(option_list)
    IN join(IF short THEN <<>> ELSE <<"/">>,
            [x \in 1..Len(option_list) |->
                display_option(option_list[x].key, default_option, short)])

Max(S) == CHOOSE x \in S : \A y \in S : x >= y

\* f"{s:<{width}s}" and f"{s:{width}s}": s padded on the right to width
RECURSIVE ljust(_, _)
ljust(s, width) == IF Len(s) >= width THEN s ELSE ljust(s \o <<" ">>, width)

default_mark_str == <<"(", "d", "e", "f", "a", "u", "l", "t", ")", " ">>

\* the legend print_long_descriptions adds: one line per option
RECURSIVE legend(_, _, _)
legend(option_list, default_option, full_list) ==
    IF Len(option_list) = 0 THEN <<>>
    ELSE LET option == option_list[1].key
             max_opt_len == Max({Len(full_list[x].key) : x \in 1..Len(full_list)})
         IN <<"\n">>
            \o ljust(IF option = default_option THEN default_mark_str ELSE <<>>,
                     Len(default_mark_str))
            \o ljust(display_option(option, default_option,
                                    is_short_format(full_list)), max_opt_len)
            \o <<":", " ">> \o option_list[1].description
            \o legend(Tail(option_list), default_option, full_list)

\* the first prompt, for message = ""
first_message(option_list, default_option, print_long_descriptions) ==
    (IF print_long_descriptions
     THEN legend(option_list, default_option, option_list)
          \o <<"\n", " ", " ", "Selection">>
     ELSE <<>>)
    \o <<" ", "(">> \o display_options_str(option_list, default_option)
    \o <<")", " ", "?", " ">>

repeat_message(option_list, default_option) ==
    <<"Invalid selection", " ", "(">>
    \o display_options_str(option_list, default_option) \o <<")", " ", "?", " ">>

\* the option lists of the modelled calls: the yes/no list of
\* display_yn_option and a list with longer keys
YnOptions == << [key |-> <<"y">>, description |-> <<"Confirm">>],
               [key |-> <<"n">>, description |-> <<"Deny">>] >>
WordOptions == << [key |-> <<"y", "e", "s">>, description |-> <<"Confirm">>],
                 [key |-> <<"n", "o">>, description |-> <<"Deny">>] >>

DisplayOptionsCalls ==
    {[option_list |-> ol, default_option |-> ol[d].key, print_long_descriptions |-> b] :
        ol \in {YnOptions, WordOptions}, d \in {1, 2}, b \in BOOLEAN}

\* the lines the user may type
InputLines == {<<>>, <<" ">>, <<"y">>, <<"Y">>, <<"n">>, <<"z">>, <<" ", "N", " ">>,
               <<"Y", "E", "S">>, <<"N", "o">>, <<"y", "e">>}

\* the assertions of display_options on its arguments
display_options_asserts(a) ==
    /\ a.default_option \in KeySet(a.option_list)
    /\ \A k \in KeySet(a.option_list) : islower(k)

\* the selection compared as typed, only stripped
selection_as_typed(raw) == strip(raw)

\* selection = input(message).strip().lower()
selection_of(raw) == lower(strip(raw))

\* display_options up to its first input(): the state when it blocks
DpInit ==
    /\ dp_args \in {a \in DisplayOptionsCalls : display_options_asserts(a)}
    /\ dp_pc = "input"
    /\ dp_message = first_message(dp_args.option_list, dp_args.default_option,
                                  dp_args.print_long_descriptions)
    /\ dp_shown = <<>>
    /\ dp_inputs = <<>>
    /\ dp_ret = None

\* one round of the while loop: input(message) prints the prompt and reads
\* the line raw
ReadSelection(raw) ==
    LET selection == selection_of(raw)
    IN /\ dp_pc = "input"
       /\ Len(dp_inputs) < MaxInputs
       /\ dp_shown' = Append(dp_shown, dp_message)
       /\ dp_inputs' = Append(dp_inputs, raw)
       /\ IF Len(selection) = 0
          THEN /\ dp_pc' = "returned"
               /\ dp_ret' = dp_args.default_option
               /\ UNCHANGED dp_message
          ELSE IF selection \in KeySet(dp_args.option_list)
          THEN /\ dp_pc' = "returned"
               /\ dp_ret' = selection
               /\ UNCHANGED dp_message
          ELSE /\ dp_message' = repeat_message(dp_args.option_list,
                                               dp_args.default_option)
               /\ UNCHANGED <<dp_pc, dp_ret>>
       /\ UNCHANGED dp_args

DisplayOptionsInput ==
    /\ \E raw \in InputLines : ReadSelection(raw)
    /\ UNCHANGED <<tokVars, lockVars, envVars, sgVars, cpVars>>

DpNext ==
    \/ DisplayOptionsInput

DpIdle ==
    /\ dp_args = [option_list |-> YnOptions, default_option |-> <<"n">>,
                  print_long_descriptions |-> FALSE]
    /\ dp_pc = "returned"
    /\ dp_message = <<>>
    /\ dp_shown = <<>>
    /\ dp_inputs = <<>>
    /\ dp_ret = None

\* ------------------------------------------------------------------------
\* Singleton helpers (decorator.py)
\* A and B are classes wrapped by @singleton, each with the dict `instances`
\* of its own closure; M uses the metaclass Singleton and Sub is a subclass
\* of M; both are keys of the one dict Singleton._instances.
\* An object is its index in `objects`.
\* ------------------------------------------------------------------------
DecoratedClasses == {"A", "B"}
MetaClasses == {"M", "Sub"}
Classes == DecoratedClasses \cup MetaClasses
CtorArgs == {"x", "y"}

\* cls(*args, **kwargs): a new object
construct(objs, cls, args) == Append(objs, [cls |-> cls, args |-> args])

\* d[k] = v
dict_set(d, k, v) == [x \in DOMAIN d \cup {k} |-> IF x = k THEN v ELSE d[x]]

EmptyDict == [x \in {} |-> 0]

NoConstruction == [cls |-> "none", args |-> "", ret |-> 0]

\* a membership test that never finds the class
never_in(cls, d) == TRUE

\* `cls not in instances` of getinstance and of Singleton.__call__
not_in(cls, d) == cls \notin DOMAIN d

SgInit ==
    /\ instances = [c \in DecoratedClasses |-> EmptyDict]
    /\ Singleton_instances = EmptyDict
    /\ objects = <<>>
    /\ first_inst = EmptyDict
    /\ sg_call = NoConstruction

\* the bookkeeping of a construction call of cls that returned ret
Returned(cls, args, ret) ==
    /\ sg_call' = [cls |-> cls, args |-> args, ret |-> ret]
    /\ first_inst' = IF cls \in DOMAIN first_inst THEN first_inst
                     ELSE dict_set(first_inst, cls, ret)

\* getinstance(*args, **kwargs) of the closure singleton(cls) returned
getinstance(cls, args) ==
    LET miss == not_in(cls, instances[cls])
        new == Len(objects) + 1
        d == IF miss THEN dict_set(instances[cls], cls, new) ELSE instances[cls]
    IN /\ objects' = IF miss THEN construct(objects, cls, args) ELSE objects
       /\ instances' = [instances EXCEPT ![cls] = d]
       /\ Returned(cls, args, d[cls])
       /\ UNCHANGED Singleton_instances

\* Singleton.__call__(cls, *args, **kwargs)
Singleton_call(cls, args) ==
    LET miss == not_in(cls, Singleton_instances)
        new == Len(objects) + 1
        d == IF miss THEN dict_set(Singleton_instances, cls, new)
             ELSE Singleton_instances
    IN /\ objects' = IF miss THEN construct(objects, cls, args) ELSE objects
       /\ Singleton_instances' = d
       /\ Returned(cls, args, d[cls])
       /\ UNCHANGED instances

CallDecorated ==
    /\ \E cls \in DecoratedClasses, args \in CtorArgs : getinstance(cls, args)
    /\ UNCHANGED <<tokVars, lockVars, envVars, dpVars, cpVars>>

CallMeta ==
    /\ \E cls \in MetaClasses, args \in CtorArgs : Singleton_call(cls, args)
    /\ UNCHANGED <<tokVars, lockVars, envVars, dpVars, cpVars>>

SgNext ==
    \/ CallDecorated
    \/ CallMeta

SgIdle == SgInit

\* ------------------------------------------------------------------------
\* ANSI printer (colored_print.py)
\* ------------------------------------------------------------------------
\* the character "\033"
ESC == "ESC"

\* the values of the ANSICompose members the printers use
ENDC == 0
BOLD == 1
FORE_RED == 31
FORE_YELLOW == 33
FORE_BLUE == 34
FORE_CYAN == 36

\* ANSICompose.compose(*args): f"\033[{';'.join(map(str, args))}m"
compose(codes) ==
    <<ESC, "[">> \o join(<<";">>, [x \in 1..Len(codes) |-> str_int(codes[x])])
    \o <<"m">>

ANSIColors_RED == compose(<<FORE_RED>>)
ANSIColors_BOLD_RED == compose(<<FORE_RED, BOLD>>)
ANSIColors_ENDC == compose(<<ENDC>>)

\* the levels of the logging module by name (logging._nameToLevel)
logging_nameToLevel ==
    [n \in {"CRITICAL", "FATAL", "ERROR", "WARN", "WARNING", "INFO", "DEBUG", "NOTSET"}
        |-> CASE n \in {"CRITICAL", "FATAL"} -> 50
              [] n = "ERROR" -> 40
              [] n \in {"WARN", "WARNING"} -> 30
              [] n = "INFO" -> 20
              [] n = "DEBUG" -> 10
              [] n = "NOTSET" -> 0]

\* ColoredPrintSetting.MSG_COLOR_DICT, keyed by logging level
MSG_COLOR_DICT ==
    [l \in {logging_nameToLevel[n] : n \in {"CRITICAL", "ERROR", "WARNING", "INFO", "DEBUG"}}
        |-> CASE l = logging_nameToLevel["CRITICAL"] -> compose(<<FORE_RED, BOLD>>)
              [] l = logging_nameToLevel["ERROR"] -> compose(<<FORE_RED>>)
              [] l = logging_nameToLevel["WARNING"] -> compose(<<FORE_YELLOW>>)
              [] l = logging_nameToLevel["INFO"] -> compose(<<FORE_BLUE>>)
              [] l = logging_nameToLevel["DEBUG"] -> compose(<<FORE_CYAN>>)]

\* the streams given as file=: a terminal, a regular file, and an object
\* that has write() but no isatty()
Streams == {"terminal", "file", "writer"}

\* isatty(stream): stream.isatty(), False on AttributeError.  No printer
\* calls it.
isatty(stream) == IF stream = "writer" THEN FALSE ELSE stream = "terminal"

\* the positional arguments of a print call
PrintArgs == {<<>>, << <<"h", "i">> >>, << <<"h", "i">>, <<"x">> >>}

\* what print(*args) writes, with the default sep and the given end
print_text(args, end) == join(<<" ">>, args) \o end

NoPrint == [fn |-> "none", ansi |-> <<>>, args |-> <<>>, stream |-> "terminal",
            no_color |-> FALSE, raised |-> ""]

\* env.no_color() as the import of colored_print calls it, in a process
\* that has not called it before
no_color_at_import == cached({}, check_env_exists_and_not_empty(NO_COLOR_ENVIRON))

\* the state once colored_print is imported: no_color = env.no_color()
CpInit ==
    /\ environ \in [EnvNames -> EnvValues \cup {None}]
    /\ environ[IS_DEBUG_ENVIRON] = None
    /\ is_debug_cache = {}
    /\ no_color_cache = {no_color_at_import}
    /\ first_ret = [is_debug |-> {}, no_color |-> {no_color_at_import}]
    /\ env_call = [fn |-> "no_color", arg |-> "", val |-> environ[NO_COLOR_ENVIRON],
                   ret |-> no_color_at_import, raised |-> ""]
    /\ cp_no_color = no_color_at_import
    /\ cp_override = {}
    /\ cp_call = NoPrint
    /\ printed = <<>>

\* color_settings(force_color)
color_settings(force_color) ==
    /\ cp_no_color' = force_color
    /\ cp_override' = {force_color}
    /\ UNCHANGED <<cp_call, printed>>

\* a pprintf that does not look at no_color and always wraps
pprintf_always_wraps(fn, ansi_color_str, args, stream) ==
    /\ cp_call' = [fn |-> fn, ansi |-> ansi_color_str, args |-> args,
                   stream |-> stream, no_color |-> cp_no_color, raised |-> ""]
    /\ printed' = print_text(<<ansi_color_str \o print_text(args, <<>>)
                               \o ANSIColors_ENDC>>, <<"\n">>)
    /\ UNCHANGED <<cp_no_color, cp_override>>

\* pprintf(ansi_color_str, *args, file=stream), called as fn
pprintf(fn, ansi_color_str, args, stream) ==
    /\ cp_call' = [fn |-> fn, ansi |-> ansi_color_str, args |-> args,
                   stream |-> stream, no_color |-> cp_no_color, raised |-> ""]
    /\ printed' = IF cp_no_color
                  THEN print_text(args, <<"\n">>)
                  ELSE print_text(<<ansi_color_str \o print_text(args, <<>>)
                                    \o ANSIColors_ENDC>>, <<"\n">>)
    /\ UNCHANGED <<cp_no_color, cp_override>>

\* a printer call that raised before printing
printer_raises(fn, args, stream, error) ==
    /\ cp_call' = [fn |-> fn, ansi |-> <<>>, args |-> args, stream |-> stream,
                   no_color |-> cp_no_color, raised |-> error]
    /\ printed' = <<>>
    /\ UNCHANGED <<cp_no_color, cp_override>>

\* cprintf, eprintf, wprintf, iprintf, dprintf: pprintf with the colour of
\* their level
LevelPrinters ==
    [cprintf |-> "CRITICAL", eprintf |-> "ERROR", wprintf |-> "WARNING",
     iprintf |-> "INFO", dprintf |-> "DEBUG"]

level_printf(fn, args, stream) ==
    pprintf(fn, MSG_COLOR_DICT[logging_nameToLevel[LevelPrinters[fn]]], args, stream)

\* lprintf(level, *args, file=stream) with the level checked by
\* __check_level: an int is taken as it is
lprintf_int(level, args, stream) ==
    IF level \in DOMAIN MSG_COLOR_DICT
    THEN pprintf("lprintf", MSG_COLOR_DICT[level], args, stream)
    ELSE printer_raises("lprintf", args, stream, "KeyError")

\* lprintf with a level name: looked up in logging._nameToLevel
lprintf_name(level, args, stream) ==
    IF level \notin DOMAIN logging_nameToLevel
    THEN printer_raises("lprintf", args, stream, ValueError)
    ELSE lprintf_int(logging_nameToLevel[level], args, stream)

ColorSettings ==
    /\ \E force_color \in BOOLEAN : color_settings(force_color)
    /\ UNCHANGED <<tokVars, lockVars, envVars, dpVars, sgVars>>

CallPprintf ==
    /\ \E ansi \in {ANSIColors_RED, ANSIColors_BOLD_RED}, args \in PrintArgs,
          stream \in Streams : pprintf("pprintf", ansi, args, stream)
    /\ UNCHANGED <<tokVars, lockVars, envVars, dpVars, sgVars>>

CallLevelPrintf ==
    /\ \E fn \in DOMAIN LevelPrinters, args \in PrintArgs, stream \in Streams :
          level_printf(fn, args, stream)
    /\ UNCHANGED <<tokVars, lockVars, envVars, dpVars, sgVars>>

CallLprintfInt ==
    /\ \E level \in {0, 10, 20, 30, 40, 50}, args \in PrintArgs, stream \in Streams :
          lprintf_int(level, args, stream)
    /\ UNCHANGED <<tokVars, lockVars, envVars, dpVars, sgVars>>

CallLprintfName ==
    /\ \E level \in {"ERROR", "WARN", "NOTSET", "BOGUS"}, args \in PrintArgs,
          stream \in Streams : lprintf_name(level, args, stream)
    /\ UNCHANGED <<tokVars, lockVars, envVars, dpVars, sgVars>>

CpNext ==
    \/ ColorSettings
    \/ CallPprintf
    \/ CallLevelPrintf
    \/ CallLprintfInt
    \/ CallLprintfName

\* colored_print is imported in a process without NO_COLOR and has not
\* printed
CpIdle ==
    /\ cp_no_color = FALSE
    /\ cp_override = {}
    /\ cp_call = NoPrint
    /\ printed = <<>>

\* ------------------------------------------------------------------------
\* Specifications: one per component, the other components idle
\* ------------------------------------------------------------------------
TokSpecInit == TokInit /\ LockIdle /\ EnvIdle /\ DpIdle /\ SgIdle /\ CpIdle
TokSpec == TokSpecInit /\ [][TokNext]_vars

LockSpecInit == LockInit /\ TokIdle /\ EnvIdle /\ DpIdle /\ SgIdle /\ CpIdle
LockSpec == LockSpecInit /\ [][LockNext]_vars

EnvSpecInit == EnvInit /\ TokIdle /\ LockIdle /\ DpIdle /\ SgIdle /\ CpIdle
EnvSpec == EnvSpecInit /\ [][EnvNext]_vars

DpSpecInit == DpInit /\ TokIdle /\ LockIdle /\ EnvIdle /\ SgIdle /\ CpIdle
DpSpec == DpSpecInit /\ [][DpNext]_vars

SgSpecInit == SgInit /\ TokIdle /\ LockIdle /\ EnvIdle /\ DpIdle /\ CpIdle
SgSpec == SgSpecInit /\ [][SgNext]_vars

CpSpecInit == CpInit /\ TokIdle /\ LockIdle /\ DpIdle /\ SgIdle
CpSpec == CpSpecInit /\ [][CpNext]_vars

\* the whole toolbox
Init == TokInit /\ LockInit /\ EnvInit /\ DpInit /\ SgInit /\ CpIdle
Next == TokNext \/ LockNext \/ EnvNext \/ DpNext \/ SgNext \/ CpNext
Spec == Init /\ [][Next]_vars

\* ------------------------------------------------------------------------
\* Claims
\* ------------------------------------------------------------------------

\* C1: for every line, get_first_word(line) and get_first_word_re(line)
\* return the same string.
C1_SameFirstWord ==
    (first_word # NotCalled /\ first_word_re # NotCalled)
        => first_word = first_word_re

\* C2: for every line, get_line_without_first_word(line) and
\* get_line_without_first_word_re(line) return the same string.
C2_SameRemainder ==
    (rest # NotCalled /\ rest_re # NotCalled) => rest = rest_re

\* C3: for a non-empty line without whitespace both first-token functions
\* return the line and both remainder functions return the empty string.
C3_NoWhitespaceLine ==
    (line # <<>> /\ \A x \in 1..Len(line) : ~isspace(line[x]))
        => /\ first_word \in {NotCalled, line}
           /\ first_word_re \in {NotCalled, line}
           /\ rest \in {NotCalled, <<>>}
           /\ rest_re \in {NotCalled, <<>>}

\* C4: an acquireLockFile call succeeds iff no handle of an earlier
\* successful acquire is still unreleased; at most one handle holds the lock;
\* the lock stays with a handle until that handle is released.
C4_ExclusiveHandles ==
    /\ acq # NoAcquire => (acq.ok <=> ~acq.held_before)
    /\ Cardinality(Held) <= 1
    /\ \A h \in Held : lock_owner = handles[h].proc

\* C5: once is_debug() (no_color()) has been called, every later call
\* returns what the first call returned, whatever set_env did in between.
C5_CachedForever ==
    /\ env_call.fn = "is_debug" => first_ret.is_debug = {env_call.ret}
    /\ env_call.fn = "no_color" => first_ret.no_color = {env_call.ret}

\* C5 witness: is_debug() is called again after set_env made DEBUG exist,
\* and still answers False as its first call did.
C5_Witness ==
    /\ env_call.fn = "is_debug"
    /\ env_call.ret = FALSE
    /\ env_call.val # None

\* C9: check_env_true(name) returns true iff the variable is set and is a
\* non-zero integer string or a non-empty non-numeric string; false when it
\* is unset, empty, or an integer string of value zero.
C9_Truthy ==
    env_call.fn = "check_env_true"
        => /\ env_call.raised = ""
           /\ env_call.ret =
                 ~(\/ env_call.val = None
                   \/ env_call.val = <<>>
                   \/ \A x \in 1..Len(env_call.val) : env_call.val[x] = "0")

\* what the claim C6 calls a deciding input: stripped and lower-cased it is
\* empty or an option key
Decides(raw) ==
    LET t == lower(strip(raw))
    IN t = <<>> \/ t \in KeySet(dp_args.option_list)

\* C6: display_options returns at the first input that, stripped and
\* lower-cased, is empty (the default key is returned) or an option key
\* (that key is returned); every earlier input re-prompts with the
\* 'Invalid selection' message; the returned value is a key of the options.
C6_PromptLoop ==
    LET n == Len(dp_inputs)
    IN /\ Len(dp_shown) = n
       /\ \A k \in 1..n :
             dp_shown[k] = IF k = 1
                           THEN first_message(dp_args.option_list,
                                              dp_args.default_option,
                                              dp_args.print_long_descriptions)
                           ELSE <<"Invalid selection", " ", "(">>
                                \o display_options_str(dp_args.option_list,
                                                       dp_args.default_option)
                                \o <<")", " ", "?", " ">>
       /\ \A k \in 1..(n - 1) : ~Decides(dp_inputs[k])
       /\ (n > 0 /\ Decides(dp_inputs[n]))
             => /\ dp_pc = "returned"
                /\ dp_ret = IF lower(strip(dp_inputs[n])) = <<>>
                            THEN dp_args.default_option
                            ELSE lower(strip(dp_inputs[n]))
                /\ dp_ret \in KeySet(dp_args.option_list)
       /\ (n > 0 /\ ~Decides(dp_inputs[n]))
             => /\ dp_pc = "input"
                /\ dp_ret = None
                /\ dp_message = <<"Invalid selection", " ", "(">>
                                \o display_options_str(dp_args.option_list,
                                                       dp_args.default_option)
                                \o <<")", " ", "?", " ">>

\* C6 witness: with options y/n, "z" was rejected and then "Y" returned "y".
C6_Witness ==
    /\ dp_args.option_list = YnOptions
    /\ dp_inputs = << <<"z">>, <<"Y">> >>
    /\ dp_pc = "returned"
    /\ dp_ret = <<"y">>

Printed == cp_call.fn # "none" /\ cp_call.raised = ""

C8_PlainOffTerminal ==
    (Printed /\ ~isatty(cp_call.stream))
        => \A x \in 1..Len(printed) : printed[x] # ESC

\* C11: an acquireLockFile call on a path whose lock is held fails at once
\* with the OS error and changes nothing: the owner of the lock, the
\* holder's handle and the contents of the lock file stay as they were.
\* Stated for the lock held by another process than the caller (held by the
\* caller itself, the call does not even fail: C4).  A step that changes
\* acq is an acquireLockFile call.
C11_AllOrNothing ==
    [][(acq' # acq /\ lock_owner \notin {NoProc, acq'.proc})
          => /\ ~acq'.ok
             /\ lock_owner' = lock_owner
             /\ \A h \in Held : handles'[h] = handles[h]
             /\ lock_file' = lock_file]_vars
====
